---- MODULE Spec2Model ----
(***************************************************************************)
(* Router API of the micro-app sandbox (src/src/sandbox/router/api.ts):    *)
(* router.push / router.replace / router.go / back / forward, the          *)
(* beforeEach / afterEach guard sets, executeNavigationGuard and           *)
(* clearCurrentWhenUnmount, together with the collaborators the router     *)
(* calls (application registry, virtual History, host URL codec, real      *)
(* History, idle-callback queue).                                          *)
(***************************************************************************)
EXTENDS Naturals, Sequences, FiniteSets, TLC

VARIABLES
  appInstanceMap,   \* appName -> [exists, sandBox, state]: the application registry
  microLocation,    \* appName -> location of the application's proxyWindow
  rawHistory,       \* the real History: [url], url: appName -> encoded micro path
  current,          \* router.current: Map appName -> location (the ledger)
  beforeGuards,     \* insertion-ordered Set of guards registered with beforeEach
  afterGuards,      \* insertion-ordered Set of guards registered with afterEach
  idleQueue,        \* callbacks handed to requestIdleCallback and not yet run
  handles,          \* the handle requestIdleCallback returned for each of them
  navigated,        \* names with a navigation processed since their last unmount
  eff               \* what the last operation did: calls made, errors logged

vars == <<appInstanceMap, microLocation, rawHistory, current,
          beforeGuards, afterGuards, idleQueue, handles, navigated, eff>>

routerVars == <<appInstanceMap, microLocation, rawHistory>>
guardVars == <<current, beforeGuards, afterGuards, idleQueue, handles,
               navigated>>

(***************************************************************************)
(* Bounds                                                                  *)
(***************************************************************************)
\* idle callbacks that may be pending at once
MaxIdle == 1
\* idle callbacks that may be pending at once where the guard inputs are few
MaxPending == 2

(***************************************************************************)
(* Values                                                                  *)
(***************************************************************************)
Names == {"A", "B"}

\* JavaScript undefined / null, as field values of a request
undefined == "<undefined>"
null == "<null>"

\* request.name as the caller writes it
RawNames == {"A", "B", "#"}
\* request.path as the caller writes it (undefined: not a string)
RawPaths == {"/a?x=1", "http://other.com/a?x=1", "c#h", undefined}
\* request.replace: boolean or left out
ReplaceOpts == {"true", "false", undefined}
\* request.state
States == {"s1", undefined}

\* requests with a valid name and a string path, in every variant; requests
\* with an invalid name or a path that is no string, their options left out
Requests ==
  [name : RawNames \ {"#"}, path : RawPaths \ {undefined},
   replace : ReplaceOpts, state : States]
  \cup [name : {"#"}, path : RawPaths, replace : {undefined}, state : {undefined}]
  \cup [name : RawNames, path : {undefined}, replace : {undefined}, state : {undefined}]

\* base URL of every application, and the host document's origin
appURL == "http://app.com/sub/"
origin == "http://host.com"

Loc(p, s, h) == [pathname |-> p, search |-> s, hash |-> h]

\* the locations the requests resolve to
Locations == {Loc("/a", "?x=1", ""), Loc("/sub/c", "", "#h"), Loc("/c", "", "#h")}
\* the locations an application's own base URL yields
MicroLocations == {Loc("/a", "?x=1", ""), Loc("/sub/c", "", "#h")}

fullPathOf(l) == l.pathname \o l.search \o l.hash

\* a full path string read back as a location
parsePath(p) == CHOOSE l \in Locations : fullPathOf(l) = p

(***************************************************************************)
(* Collaborators from libs/utils                                           *)
(***************************************************************************)
isString(v) == v # undefined

\* '' for a name that is no string or holds no valid character
formatAppName(name) == IF name \in Names THEN name ELSE ""

\* new URL(path, base): the origin of an absolute path is dropped, a
\* relative path is resolved against the directory of base
createURL(path, base) ==
  CASE path = "/a?x=1" -> Loc("/a", "?x=1", "")
    [] path = "http://other.com/a?x=1" -> Loc("/a", "?x=1", "")
    [] path = "c#h" -> IF base = appURL THEN Loc("/sub/c", "", "#h")
                                         ELSE Loc("/c", "", "#h")

\* a ?? b
Coalesce(a, b) == IF a = undefined THEN b ELSE a

(***************************************************************************)
(* Application registry                                                    *)
(***************************************************************************)
NoApp == [exists |-> FALSE, sandBox |-> FALSE, state |-> "unmounted"]

AppRecords ==
  {NoApp} \cup [exists : {TRUE}, sandBox : BOOLEAN,
                state : {"unmounted", "mounted", "hidden"}]

\* getActiveApps(): every registered application that is not unmounted;
\* hidden keep-alive applications are included
getActiveApps ==
  {n \in Names : appInstanceMap[n].exists /\ appInstanceMap[n].state # "unmounted"}

(***************************************************************************)
(* Host URL codec (./core)                                                 *)
(***************************************************************************)
encodeMicroPath(p) ==
  CASE p = "/a?x=1" -> "%2Fa%3Fx%3D1"
    [] p = "/c#h" -> "%2Fc%23h"
    [] p = "/sub/c#h" -> "%2Fsub%2Fc%23h"

decodeMicroPath(e) ==
  CASE e = "%2Fa%3Fx%3D1" -> "/a?x=1"
    [] e = "%2Fc%23h" -> "/c#h"
    [] e = "%2Fsub%2Fc%23h" -> "/sub/c#h"

\* no micro path of any application in the host URL
EmptyURL == [n \in Names |-> ""]

\* the path of appName as the host URL holds it, null when it holds none
getMicroPathFromURL(appName) ==
  IF rawHistory.url[appName] = "" THEN null
  ELSE decodeMicroPath(rawHistory.url[appName])

\* the host URL with the path of appName set to targetLocation
setMicroPathToURL(appName, targetLocation) ==
  [fullPath |-> [rawHistory.url EXCEPT ![appName] = encodeMicroPath(fullPathOf(targetLocation))],
   searchHash |-> [n \in Names \ {appName} |-> rawHistory.url[n]]]

\* the history state of the entry: the state of appName inside the raw state
setMicroState(appName, rawState, microState, baseOrigin, searchHash) ==
  [app |-> appName, microState |-> microState]

(***************************************************************************)
(* What an operation did                                                   *)
(***************************************************************************)
NoEff(op, name) ==
  [op |-> op, name |-> name,
   valid |-> FALSE,        \* the request reached the comparison of paths
   active |-> FALSE,       \* the application was in getActiveApps()
   target |-> "",          \* the resolved full path
   replace |-> undefined,  \* request.replace
   state |-> undefined,    \* request.state, of a request on the active path
   stringPath |-> FALSE,   \* request.path is a string
   repeat |-> "no",        \* the call before was a push/replace of this name and path
   microCalls |-> <<>>,    \* calls on a proxyWindow.history
   rawCalls |-> <<>>,      \* calls on the real History
   popStates |-> <<>>,     \* dispatchPopStateEventToMicroApp, with the full path
                           \* the proxyWindow is at when the event is dispatched
   errors |-> <<>>,        \* logError
   to |-> Loc(undefined, "", ""),    \* the locations handed to the guards
   from |-> Loc(undefined, "", ""),
   guardCalls |-> <<>>,    \* guards invoked
   known |-> FALSE,        \* the guard handed to beforeEach / afterEach was registered
   scheduled |-> 0,        \* requestIdleCallback calls
   handle |-> 0,           \* the handle of the callback scheduled or run
   late |-> FALSE]         \* the callback ran right after a guard was newly
                           \* registered with afterEach

mutated(e) == e.microCalls # <<>> \/ e.rawCalls # <<>>

\* how a request follows the operation before it
repeatOf(appName, targetPath) ==
  IF eff.op \in {"push", "replace"} /\ eff.valid
     /\ eff.name = appName /\ eff.target = targetPath
  THEN (IF mutated(eff) THEN "after-mutation" ELSE "after-noop")
  ELSE "no"

(***************************************************************************)
(* Virtual History and real History                                        *)
(***************************************************************************)
\* proxyWindow.history[methodName](state, '', targetPath) of appName: the
\* location of the proxyWindow becomes targetPath; the host URL is not touched
microHistoryNavigate(appName, method, state, targetPath) ==
  [microLocation EXCEPT ![appName] = parsePath(targetPath)]

\* rawWindow.history[methodName](state, '', fullPath): the entry the host
\* document is at afterwards; the entries below it are read by no operation
nativeHistoryNavigate(method, url, state) == [url |-> url]

(***************************************************************************)
(* router.push / router.replace                                            *)
(***************************************************************************)
\* every application taken as inactive
isActive_never(appName) == FALSE

\* a hidden keep-alive application is not taken as active
isActive_visibleOnly(appName) ==
  appInstanceMap[appName].exists /\ appInstanceMap[appName].state = "mounted"

\* getActiveApps().includes(appName)
isActive(appName) == appName \in getActiveApps

\* the same fullPath is not blocked
pathChanged_always(currentFullPath, targetPath) == TRUE

\* the same fullPath is blocked
pathChanged(currentFullPath, targetPath) == currentFullPath # targetPath

\* the replace field of the request is not read
methodName_variantOnly(replace, to) ==
  IF replace THEN "replaceState" ELSE "pushState"

\* the History method of the active path
methodName(replace, to) ==
  IF (replace /\ to.replace # "false") \/ to.replace = "true"
  THEN "replaceState" ELSE "pushState"

\* the rule of the active path, used for the real History too
rawMethodName_asActive(replace, to) ==
  IF (replace /\ to.replace # "false") \/ to.replace = "true"
  THEN "replaceState" ELSE "pushState"

\* the History method of the path taken when the application is not active
rawMethodName(replace, to) ==
  IF to.replace = "false" THEN "pushState" ELSE "replaceState"

\* the event is dispatched first, the virtual History is called after it
navigateActive_dispatchFirst(replace, to, appName, e) ==
  LET currentFullPath == fullPathOf(microLocation[appName])
      targetLocation == createURL(to.path, appURL)
      targetPath == fullPathOf(targetLocation)
      e1 == [e EXCEPT !.valid = TRUE, !.target = targetPath,
                      !.state = to.state,
                      !.repeat = repeatOf(appName, targetPath)]
  IN /\ UNCHANGED rawHistory
     /\ IF pathChanged(currentFullPath, targetPath)
        THEN /\ microLocation' =
                  microHistoryNavigate(appName, methodName(replace, to),
                                       Coalesce(to.state, null), targetPath)
             /\ eff' = [e1 EXCEPT
                  !.microCalls = <<[app |-> appName,
                                    method |-> methodName(replace, to),
                                    state |-> Coalesce(to.state, null),
                                    path |-> targetPath]>>,
                  !.popStates = <<[app |-> appName, at |-> currentFullPath]>>]
        ELSE /\ UNCHANGED microLocation
             /\ eff' = e1

\* the branch of an active application
navigateActive(replace, to, appName, e) ==
  LET currentFullPath == fullPathOf(microLocation[appName])
      targetLocation == createURL(to.path, appURL)
      targetPath == fullPathOf(targetLocation)
      e1 == [e EXCEPT !.valid = TRUE, !.target = targetPath,
                      !.state = to.state,
                      !.repeat = repeatOf(appName, targetPath)]
  IN /\ UNCHANGED rawHistory
     /\ IF pathChanged(currentFullPath, targetPath)
        THEN /\ microLocation' =
                  microHistoryNavigate(appName, methodName(replace, to),
                                       Coalesce(to.state, null), targetPath)
             /\ eff' = [e1 EXCEPT
                  !.microCalls = <<[app |-> appName,
                                    method |-> methodName(replace, to),
                                    state |-> Coalesce(to.state, null),
                                    path |-> targetPath]>>,
                  !.popStates = <<[app |-> appName,
                                   at |-> fullPathOf(microLocation'[appName])]>>]
        ELSE /\ UNCHANGED microLocation
             /\ eff' = e1

\* the branch of an application that does not exist or is unmounted
navigateInactive(replace, to, appName, e) ==
  LET targetLocation == createURL(to.path, origin)
      targetPath == fullPathOf(targetLocation)
      e1 == [e EXCEPT !.valid = TRUE, !.target = targetPath,
                      !.repeat = repeatOf(appName, targetPath)]
  IN /\ UNCHANGED microLocation
     /\ IF pathChanged(getMicroPathFromURL(appName), targetPath)
        THEN LET setMicroPathResult == setMicroPathToURL(appName, targetLocation)
                 method == rawMethodName(replace, to)
                 state == setMicroState(appName, null, Coalesce(to.state, null),
                                        origin, setMicroPathResult.searchHash)
             IN /\ rawHistory' =
                     nativeHistoryNavigate(method, setMicroPathResult.fullPath, state)
                /\ eff' = [e1 EXCEPT
                     !.rawCalls = <<[method |-> method,
                                     url |-> setMicroPathResult.fullPath,
                                     state |-> state]>>]
        ELSE /\ UNCHANGED rawHistory
             /\ eff' = e1

\* no application is taken to have lost its sandbox
sandBoxClosed_never(app) == FALSE

\* app && !app.sandBox
sandBoxClosed(app) == app.exists /\ ~app.sandBox

\* the request is dropped and nothing is logged
invalidRequest_silent(replace, e) ==
  /\ eff' = e
  /\ UNCHANGED <<microLocation, rawHistory>>

\* the else branch: name & path are required
invalidRequest(replace, e) ==
  /\ eff' = [e EXCEPT !.errors =
        <<IF replace THEN "name & path are required when use router.replace"
          ELSE "name & path are required when use router.push">>]
  /\ UNCHANGED <<microLocation, rawHistory>>

createNavigationMethod(replace, to) ==
  LET appName == formatAppName(to.name)
      op == IF replace THEN "replace" ELSE "push"
      e == [NoEff(op, appName) EXCEPT
              !.active = (appName \in getActiveApps), !.replace = to.replace,
              !.stringPath = (to.path # undefined)]
  IN /\ UNCHANGED <<appInstanceMap, guardVars>>
     /\ IF appName # "" /\ isString(to.path)
        THEN LET app == appInstanceMap[appName]
             IN IF sandBoxClosed(app)
                THEN /\ eff' = [e EXCEPT !.errors = <<"sandBox is closed">>]
                     /\ UNCHANGED <<microLocation, rawHistory>>
                ELSE IF isActive(appName)
                     THEN navigateActive(replace, to, appName, e)
                     ELSE navigateInactive(replace, to, appName, e)
        ELSE invalidRequest(replace, e)

push(to) == createNavigationMethod(FALSE, to)
replace(to) == createNavigationMethod(TRUE, to)

(***************************************************************************)
(* router.go / router.back / router.forward                                *)
(***************************************************************************)
\* arguments of go
Deltas == {0, 1}

\* the call is handed to the real History; the traversal it asks for is the
\* browser's, and happens after the call returned
createRawHistoryMethod(name, rests) ==
  /\ eff' = [NoEff(name, "") EXCEPT
        !.rawCalls = <<[method |-> name, url |-> rawHistory.url, state |-> rests]>>]
  /\ UNCHANGED <<routerVars, guardVars>>

go(delta) == createRawHistoryMethod("go", <<delta>>)
back == createRawHistoryMethod("back", <<>>)
forward == createRawHistoryMethod("forward", <<>>)

(***************************************************************************)
(* Application lifecycle (create_app): mount, hide, show, unmount          *)
(***************************************************************************)
setAppState(appName, state) ==
  /\ appInstanceMap[appName].exists
  /\ appInstanceMap[appName].state # state
  /\ appInstanceMap' = [appInstanceMap EXCEPT ![appName].state = state]
  /\ eff' = NoEff("lifecycle", appName)
  /\ UNCHANGED <<microLocation, rawHistory, guardVars>>

(***************************************************************************)
(* Guards                                                                  *)
(***************************************************************************)
\* a guard is a function, called for every application, or a plain object
\* whose function entries are keyed by application name; a guard marked once
\* calls, while it runs, the function its registration returned
G1 == [id |-> "G1", kind |-> "function", keys |-> {}, once |-> FALSE]
G2 == [id |-> "G2", kind |-> "object", keys |-> {"A"}, once |-> FALSE]
G3 == [id |-> "G3", kind |-> "function", keys |-> {}, once |-> TRUE]
Guards == {G1, G2, G3}

isFunction(guard) == guard.kind = "function"
isPlainObject(guard) == guard.kind = "object"
\* isFunction(guard[appName])
hasFunctionFor(guard, appName) == appName \in guard.keys

\* locations handed to executeNavigationGuard: to, and a from that differs
GuardLocations == {Loc("/a", "?x=1", ""), Loc("/sub/c", "", "#h")}
undefinedLocation == Loc(undefined, "", "")
FromLocations == {Loc("/a", "?x=1", ""), undefinedLocation}

\* useCallbacks: a Set, iterated in insertion order
has(list, cb) == \E i \in 1..Len(list) : list[i] = cb

\* an array: the callback is appended whether it is there or not
add_list(list, cb) == Append(list, cb)

add(list, cb) == IF has(list, cb) THEN list ELSE Append(list, cb)
delete(list, cb) == SelectSeq(list, LAMBDA x : x # cb)

(***************************************************************************)
(* runGuards                                                               *)
(***************************************************************************)
\* the guards are run last registered first
RECURSIVE runGuards_reversed(_, _, _, _)
runGuards_reversed(appName, to, from, guards) ==
  IF guards = <<>> THEN <<>>
  ELSE LET guard == Head(guards)
           call == IF isFunction(guard)
                   THEN <<[guard |-> guard, args |-> <<appName, to, from>>]>>
                   ELSE IF isPlainObject(guard) /\ hasFunctionFor(guard, appName)
                        THEN <<[guard |-> guard, args |-> <<to, from>>]>>
                        ELSE <<>>
       IN runGuards_reversed(appName, to, from, Tail(guards)) \o call

\* the entry of a keyed guard is not looked up by appName
RECURSIVE runGuards_anyKey(_, _, _, _)
runGuards_anyKey(appName, to, from, guards) ==
  IF guards = <<>> THEN <<>>
  ELSE LET guard == Head(guards)
           call == IF isFunction(guard)
                   THEN <<[guard |-> guard, args |-> <<appName, to, from>>]>>
                   ELSE IF isPlainObject(guard) /\ guard.keys # {}
                        THEN <<[guard |-> guard, args |-> <<to, from>>]>>
                        ELSE <<>>
       IN call \o runGuards_anyKey(appName, to, from, Tail(guards))

RECURSIVE runGuards(_, _, _, _)
runGuards(appName, to, from, guards) ==
  IF guards = <<>> THEN <<>>
  ELSE LET guard == Head(guards)
           call == IF isFunction(guard)
                   THEN <<[guard |-> guard, args |-> <<appName, to, from>>]>>
                   ELSE IF isPlainObject(guard) /\ hasFunctionFor(guard, appName)
                        THEN <<[guard |-> guard, args |-> <<to, from>>]>>
                        ELSE <<>>
       IN call \o runGuards(appName, to, from, Tail(guards))

\* the calls of a batch, each with the hook it belongs to and the entry of
\* appName a guard reading router.current finds while it runs
observed(calls, hook, appName, ledger) ==
  [i \in 1..Len(calls) |->
     [hook |-> hook, guard |-> calls[i].guard, args |-> calls[i].args,
      sees |-> IF appName \in DOMAIN ledger THEN ledger[appName]
               ELSE undefinedLocation]]

\* the Set after a batch: the once guards that ran have unregistered
afterRun(guards, calls) ==
  SelectSeq(guards,
            LAMBDA g : ~(g.once /\ \E i \in 1..Len(calls) : calls[i].guard = g))

(***************************************************************************)
(* executeNavigationGuard / clearCurrentWhenUnmount                        *)
(***************************************************************************)
\* the entry of appName is left as it was
setCurrent_skipped(appName, to) == current

\* the ledger is replaced by one holding the entry of appName alone
setCurrent_only(appName, to) == [n \in {appName} |-> to]

\* router.current.set(appName, to)
setCurrent(appName, to) ==
  [n \in DOMAIN current \cup {appName} |-> IF n = appName THEN to ELSE current[n]]

\* the entry of appName is kept
deleteCurrent_kept(appName) == current

\* router.current.clear(): every entry is removed
deleteCurrent_all(appName) == [n \in {} |-> undefinedLocation]

\* router.current.delete(appName)
deleteCurrent(appName) ==
  [n \in DOMAIN current \ {appName} |-> current[n]]

\* the before guards run first, the ledger is written after them
beforePhase_guardsFirst(appName, to, from) ==
  observed(runGuards(appName, to, from, beforeGuards), "before", appName, current)

\* the before guards are handed the entry the ledger held, not from
beforePhase_fromLedger(appName, to, from) ==
  observed(runGuards(appName, to,
                     IF appName \in DOMAIN current THEN current[appName]
                     ELSE undefinedLocation,
                     beforeGuards),
           "before", appName, setCurrent(appName, to))

\* the synchronous phase: the ledger is written, then the before guards run
beforePhase(appName, to, from) ==
  observed(runGuards(appName, to, from, beforeGuards), "before", appName,
           setCurrent(appName, to))

\* requestIdleCallback(cb): cb joins the callbacks run when the thread is idle
requestIdleCallback(cb) == Append(idleQueue, cb)

\* the handle requestIdleCallback returns: a positive integer no pending
\* callback has
nextHandle ==
  CHOOSE h \in 1..(Len(handles) + 1) :
    /\ \A i \in 1..Len(handles) : handles[i] # h
    /\ \A k \in 1..(h - 1) : \E i \in 1..Len(handles) : handles[i] = k

executeNavigationGuard(appName, to, from) ==
  /\ current' = setCurrent(appName, to)
  /\ LET calls == beforePhase(appName, to, from)
     IN /\ beforeGuards' = afterRun(beforeGuards, calls)
        /\ eff' = [NoEff("executeNavigationGuard", appName) EXCEPT
             !.to = to, !.from = from, !.guardCalls = calls, !.scheduled = 1,
             !.handle = nextHandle]
  /\ idleQueue' = requestIdleCallback([appName |-> appName, to |-> to, from |-> from])
  /\ handles' = Append(handles, nextHandle)
  /\ navigated' = navigated \cup {appName}
  /\ UNCHANGED <<routerVars, afterGuards>>

\* the callback writes the ledger again before it runs the after guards
idleCallback_rewrites ==
  /\ idleQueue # <<>>
  /\ LET cb == Head(idleQueue)
         calls == observed(runGuards(cb.appName, cb.to, cb.from, afterGuards),
                           "after", cb.appName, setCurrent(cb.appName, cb.to))
     IN /\ afterGuards' = afterRun(afterGuards, calls)
        /\ current' = setCurrent(cb.appName, cb.to)
        /\ eff' = [NoEff("idleCallback", cb.appName) EXCEPT
             !.to = cb.to, !.from = cb.from, !.guardCalls = calls,
             !.handle = Head(handles),
             !.late = (eff.op = "afterEach" /\ ~eff.known)]
  /\ idleQueue' = Tail(idleQueue)
  /\ handles' = Tail(handles)
  /\ UNCHANGED <<routerVars, beforeGuards, navigated>>

\* the callback runs the guards of beforeEach
idleCallback_beforeList ==
  /\ idleQueue # <<>>
  /\ LET cb == Head(idleQueue)
         calls == observed(runGuards(cb.appName, cb.to, cb.from, beforeGuards),
                           "after", cb.appName, current)
     IN /\ beforeGuards' = afterRun(beforeGuards, calls)
        /\ eff' = [NoEff("idleCallback", cb.appName) EXCEPT
             !.to = cb.to, !.from = cb.from, !.guardCalls = calls,
             !.handle = Head(handles),
             !.late = (eff.op = "afterEach" /\ ~eff.known)]
  /\ idleQueue' = Tail(idleQueue)
  /\ handles' = Tail(handles)
  /\ UNCHANGED <<routerVars, current, afterGuards, navigated>>

\* the callback of executeNavigationGuard, run by the idle scheduler
idleCallback ==
  /\ idleQueue # <<>>
  /\ LET cb == Head(idleQueue)
         calls == observed(runGuards(cb.appName, cb.to, cb.from, afterGuards),
                           "after", cb.appName, current)
     IN /\ afterGuards' = afterRun(afterGuards, calls)
        /\ eff' = [NoEff("idleCallback", cb.appName) EXCEPT
             !.to = cb.to, !.from = cb.from, !.guardCalls = calls,
             !.handle = Head(handles),
             !.late = (eff.op = "afterEach" /\ ~eff.known)]
  /\ idleQueue' = Tail(idleQueue)
  /\ handles' = Tail(handles)
  /\ UNCHANGED <<routerVars, current, beforeGuards, navigated>>

\* the positions of the pending callbacks of other applications
keptOnUnmount(appName) ==
  SelectSeq([i \in 1..Len(idleQueue) |-> i],
            LAMBDA i : idleQueue[i].appName # appName)

\* the unmount cancels the pending callbacks of the application
clearCurrentWhenUnmount_cancels(appName) ==
  /\ current' = deleteCurrent(appName)
  /\ navigated' = navigated \ {appName}
  /\ eff' = NoEff("clearCurrentWhenUnmount", appName)
  /\ idleQueue' = [j \in 1..Len(keptOnUnmount(appName)) |->
                     idleQueue[keptOnUnmount(appName)[j]]]
  /\ handles' = [j \in 1..Len(keptOnUnmount(appName)) |->
                   handles[keptOnUnmount(appName)[j]]]
  /\ UNCHANGED <<routerVars, beforeGuards, afterGuards>>

clearCurrentWhenUnmount(appName) ==
  /\ current' = deleteCurrent(appName)
  /\ navigated' = navigated \ {appName}
  /\ eff' = NoEff("clearCurrentWhenUnmount", appName)
  /\ UNCHANGED <<routerVars, beforeGuards, afterGuards, idleQueue, handles>>

(***************************************************************************)
(* router.beforeEach / router.afterEach and the functions they return      *)
(***************************************************************************)
beforeEach(guard) ==
  /\ beforeGuards' = add(beforeGuards, guard)
  /\ eff' = [NoEff("beforeEach", "") EXCEPT !.known = has(beforeGuards, guard)]
  /\ UNCHANGED <<routerVars, current, afterGuards, idleQueue, handles,
                 navigated>>

afterEach(guard) ==
  /\ afterGuards' = add(afterGuards, guard)
  /\ eff' = [NoEff("afterEach", "") EXCEPT !.known = has(afterGuards, guard)]
  /\ UNCHANGED <<routerVars, current, beforeGuards, idleQueue, handles,
                 navigated>>

\* the function beforeEach(guard) returned is called
unregisterBefore(guard) ==
  /\ beforeGuards' = delete(beforeGuards, guard)
  /\ eff' = NoEff("unregisterBefore", "")
  /\ UNCHANGED <<routerVars, current, afterGuards, idleQueue, handles,
                 navigated>>

\* the function afterEach(guard) returned is called
unregisterAfter(guard) ==
  /\ afterGuards' = delete(afterGuards, guard)
  /\ eff' = NoEff("unregisterAfter", "")
  /\ UNCHANGED <<routerVars, current, beforeGuards, idleQueue, handles,
                 navigated>>

(***************************************************************************)
(* Specifications                                                          *)
(***************************************************************************)
\* a registered application with an open sandbox
OpenApps == {a \in AppRecords : a.exists /\ a.sandBox}

\* application A starts in any state of the registry; B is a second
\* application with an open sandbox
InitRouter ==
  /\ appInstanceMap \in [Names -> AppRecords]
  /\ appInstanceMap["B"] \in OpenApps
  /\ microLocation \in [Names -> MicroLocations]
  /\ \A n \in Names :
       ~appInstanceMap[n].sandBox => microLocation[n] = Loc("/a", "?x=1", "")
  /\ rawHistory = [url |-> EmptyURL]

InitGuards ==
  /\ current = <<>>
  /\ beforeGuards = <<>>
  /\ afterGuards = <<>>
  /\ idleQueue = <<>>
  /\ handles = <<>>
  /\ navigated = {}

\* two mounted applications, each at its first location
MountedApps ==
  /\ appInstanceMap =
       [n \in Names |-> [exists |-> TRUE, sandBox |-> TRUE, state |-> "mounted"]]
  /\ microLocation = [n \in Names |-> Loc("/a", "?x=1", "")]
  /\ rawHistory = [url |-> EmptyURL]

Init == InitRouter /\ InitGuards /\ eff = NoEff("init", "")

InitMounted == MountedApps /\ InitGuards /\ eff = NoEff("init", "")

NextRouter ==
  \/ \E to \in Requests : push(to)
  \/ \E to \in Requests : replace(to)
  \/ \E delta \in Deltas : go(delta)
  \/ back
  \/ forward
  \/ \E n \in Names, s \in {"unmounted", "mounted", "hidden"} : setAppState(n, s)

NextGuards ==
  \/ \E n \in Names, to \in GuardLocations :
       \E from \in FromLocations \ {to} :
         Len(idleQueue) < MaxIdle /\ executeNavigationGuard(n, to, from)
  \/ idleCallback
  \/ \E n \in Names : clearCurrentWhenUnmount(n)
  \/ \E g \in Guards : beforeEach(g)
  \/ \E g \in Guards : afterEach(g)
  \/ \E g \in Guards : unregisterBefore(g)
  \/ \E g \in Guards : unregisterAfter(g)

Next == NextRouter \/ NextGuards

\* the navigation methods of the router
SpecRouter == Init /\ [][NextRouter]_vars
\* the guard pipeline and the ledger
SpecGuards == InitMounted /\ [][NextGuards]_vars
\* both
Spec == Init /\ [][Next]_vars

\* the guards registered where several callbacks may be pending: a guard
\* keyed by application and a function that unregisters itself
IdleGuards == {G2, G3}

\* the from handed over with a to: the first location of the application
\* for a navigation away from it, undefined for a navigation to it
IdleFrom(to) ==
  IF to = Loc("/a", "?x=1", "") THEN undefinedLocation
  ELSE Loc("/a", "?x=1", "")

\* the navigations: A between its two locations, B away from its first
IdleNavigations ==
  {<<"A", to>> : to \in GuardLocations} \cup {<<"B", Loc("/sub/c", "", "#h")>>}

NextIdle ==
  \/ \E nav \in IdleNavigations :
       Len(idleQueue) < MaxPending
       /\ executeNavigationGuard(nav[1], nav[2], IdleFrom(nav[2]))
  \/ idleCallback
  \/ \E n \in Names : clearCurrentWhenUnmount(n)
  \/ beforeEach(G1)
  \/ \E g \in IdleGuards : afterEach(g)
  \/ unregisterBefore(G1)
  \/ \E g \in IdleGuards : unregisterAfter(g)

\* the guard pipeline with several callbacks pending; the browser runs a
\* pending idle callback when the thread is idle
SpecIdle == InitMounted /\ [][NextIdle]_vars /\ WF_vars(idleCallback)

\* requests with a valid name and a string path, their options left out
WholeRequests ==
  [name : Names, path : {"/a?x=1", "c#h"}, replace : {undefined},
   state : {undefined}]

\* A is mounted; B is mounted or unmounted; no navigation was processed
InitWhole ==
  /\ appInstanceMap \in
       {[n \in Names |-> [exists |-> TRUE, sandBox |-> TRUE,
                          state |-> IF n = "A" THEN "mounted" ELSE s]] :
          s \in {"mounted", "unmounted"}}
  /\ microLocation = [n \in Names |-> Loc("/a", "?x=1", "")]
  /\ rawHistory = [url |-> EmptyURL]
  /\ InitGuards
  /\ eff = NoEff("init", "")

NextWhole ==
  \/ \E to \in WholeRequests : push(to)
  \/ \E to \in WholeRequests : replace(to)
  \/ \E delta \in Deltas : go(delta)
  \/ back
  \/ forward
  \/ \E nav \in IdleNavigations :
       Len(idleQueue) < MaxIdle
       /\ executeNavigationGuard(nav[1], nav[2], IdleFrom(nav[2]))
  \/ idleCallback
  \/ \E n \in Names : clearCurrentWhenUnmount(n)
  \/ beforeEach(G1)
  \/ afterEach(G1)

\* the navigation methods together with the guard pipeline, few inputs each
SpecWhole == InitWhole /\ [][NextWhole]_vars

(***************************************************************************)
(* Properties of router.push / router.replace                              *)
(***************************************************************************)
NavOps == {"push", "replace"}

\* the method the rule of the active path selects for the last request
selectedMethod(e) ==
  IF e.replace = "true" \/ (e.op = "replace" /\ e.replace # "false")
  THEN "replaceState" ELSE "pushState"

\* C1: a push or replace that directly follows a push or replace of the same
\* application with the same resolved full path calls no History, virtual or
\* real, and dispatches no notification.
C1_Idempotence ==
  (eff.op \in NavOps /\ eff.repeat # "no") =>
     /\ eff.microCalls = <<>>
     /\ eff.rawCalls = <<>>
     /\ eff.popStates = <<>>

\* the first of two such calls navigated, the second did nothing
C1_Witness ==
  /\ eff.op \in NavOps
  /\ eff.repeat = "after-mutation"
  /\ ~mutated(eff)

\* C2: a push or replace of an application that is active when called makes no
\* call on the real History and leaves the host URL as it is; one of an
\* application that is not active makes no call on a virtual History, leaves
\* every virtual location as it is and dispatches no notification.
C2_ActiveInactiveRouting ==
  [][eff'.op \in NavOps =>
       /\ eff'.active => (eff'.rawCalls = <<>> /\ rawHistory' = rawHistory)
       /\ ~eff'.active => /\ eff'.microCalls = <<>>
                          /\ eff'.popStates = <<>>
                          /\ microLocation' = microLocation]_vars

\* an active application was navigated through its virtual History
C2_Witness ==
  /\ eff.op \in NavOps
  /\ eff.active
  /\ eff.microCalls # <<>>

\* C3: a valid request to an active application whose resolved path differs
\* from the virtual location makes one call on the virtual History, with
\* replaceState iff request.replace is true, or the replace variant is called
\* and request.replace is not false; with pushState otherwise.
C3_ActiveMethod ==
  [][(/\ eff'.op \in NavOps
      /\ eff'.valid
      /\ eff'.active
      /\ eff'.target # fullPathOf(microLocation[eff'.name]))
     => /\ Len(eff'.microCalls) = 1
        /\ eff'.microCalls[1].method = selectedMethod(eff')]_vars

\* replace({name, path, replace: false}) pushed on the virtual History
C3_Witness ==
  /\ eff.op = "replace"
  /\ eff.replace = "false"
  /\ eff.active
  /\ Len(eff.microCalls) = 1
  /\ eff.microCalls[1].method = "pushState"

\* C4, as claimed: a valid request to an application that is not active, whose
\* resolved path differs from the one in the host URL, calls the real History
\* with the method the rule of the active path selects.
C4_InactiveMethodAsActive ==
  (eff.op \in NavOps /\ ~eff.active /\ eff.rawCalls # <<>>) =>
     eff.rawCalls[1].method = selectedMethod(eff)

\* C4, amended: such a request makes one call on the real History, with
\* pushState iff request.replace is false and with replaceState otherwise,
\* whichever variant is called.
C4_InactiveMethod ==
  [][(/\ eff'.op \in NavOps
      /\ eff'.valid
      /\ ~eff'.active
      /\ eff'.target # getMicroPathFromURL(eff'.name))
     => /\ Len(eff'.rawCalls) = 1
        /\ eff'.rawCalls[1].method =
             (IF eff'.replace = "false" THEN "pushState" ELSE "replaceState")]_vars

\* push({name, path}) replaced on the real History
C4_Witness ==
  /\ eff.op = "push"
  /\ eff.replace = undefined
  /\ ~eff.active
  /\ Len(eff.rawCalls) = 1
  /\ eff.rawCalls[1].method = "replaceState"

\* the request on the last operation names no application or has no string
\* path
invalidRequestOf(e) == e.op \in NavOps /\ (e.name = "" \/ ~e.stringPath)

\* the last operation called nothing and notified nobody
noCalls(e) ==
  e.microCalls = <<>> /\ e.rawCalls = <<>> /\ e.popStates = <<>>
  /\ e.guardCalls = <<>>

\* C11 as stated: a push or replace whose name is empty or invalid, or has no
\* registered application instance, or whose path is not a string, reports
\* an error, calls no History and dispatches no notification.
C11_UnregisteredIsInvalid ==
  (eff.op \in NavOps
   /\ (eff.name = "" \/ ~eff.stringPath \/ ~appInstanceMap[eff.name].exists))
  => (eff.errors # <<>> /\ noCalls(eff))

\* C11: a push or replace whose name is empty or invalid, or whose path is not
\* a string, completes, reports one error and changes nothing: the host URL,
\* the real History, every virtual History and the ledger are as before and
\* nothing is called or notified.  A well-formed name with no registered
\* application instance and a string path is not such a request: it reports
\* no error and takes the inactive path, calling the real History once
\* unless the host URL already encodes the target.
C11_InvalidRequest ==
  [][/\ invalidRequestOf(eff')
        => (Len(eff'.errors) = 1 /\ noCalls(eff')
            /\ UNCHANGED <<routerVars, guardVars>>)
     /\ (eff'.op \in NavOps /\ eff'.name # "" /\ eff'.stringPath
         /\ ~appInstanceMap[eff'.name].exists)
        => (/\ eff'.errors = <<>>
            /\ eff'.microCalls = <<>> /\ eff'.popStates = <<>>
            /\ UNCHANGED <<microLocation, guardVars>>
            /\ IF getMicroPathFromURL(eff'.name) # eff'.target
               THEN Len(eff'.rawCalls) = 1
               ELSE eff'.rawCalls = <<>> /\ UNCHANGED rawHistory)]_vars

\* an invalid name with a string path was refused
C11_Witness ==
  /\ eff.op \in NavOps
  /\ eff.name = "" /\ eff.stringPath
  /\ Len(eff.errors) = 1

\* C12: a push or replace with a valid name and a string path whose
\* application instance exists but has no sandbox reports the closed-sandbox
\* error, calls no virtual and no real History, dispatches no notification
\* and leaves the host URL, every virtual location and the ledger as they
\* were, whether or not the application is listed as active; the state a
\* later request starts from is the state before the failed one.
C12_ClosedSandbox ==
  [][(/\ eff'.op \in NavOps /\ eff'.name # "" /\ eff'.stringPath
      /\ appInstanceMap[eff'.name].exists
      /\ ~appInstanceMap[eff'.name].sandBox)
     => (/\ eff'.errors = <<"sandBox is closed">>
         /\ noCalls(eff')
         /\ UNCHANGED <<routerVars, guardVars>>)]_vars

\* a request to an application that is listed as active and has no sandbox
\* was refused
C12_Witness ==
  /\ eff.op \in NavOps
  /\ eff.active /\ ~appInstanceMap[eff.name].sandBox
  /\ eff.errors = <<"sandBox is closed">>

\* the application of the last operation is mounted and hidden
hiddenKeepAlive(name) ==
  /\ name # ""
  /\ appInstanceMap[name].exists
  /\ appInstanceMap[name].state = "hidden"

\* C15 as stated: a valid push or replace that is no no-op and targets a
\* hidden keep-alive application takes the inactive path: it calls the real
\* History, no virtual History, and dispatches no notification.
C15_HiddenIsInactive ==
  (eff.op \in NavOps /\ eff.valid /\ hiddenKeepAlive(eff.name)
   /\ mutated(eff))
  => (eff.rawCalls # <<>> /\ eff.microCalls = <<>> /\ eff.popStates = <<>>)

\* C15: a hidden keep-alive application is classified as active: a valid push
\* or replace targeting it whose target differs from its virtual location
\* calls its virtual History once and notifies it, and never calls the real
\* History or changes the host URL.
C15_HiddenIsActive ==
  [][(eff'.op \in NavOps /\ eff'.valid /\ hiddenKeepAlive(eff'.name))
     => (/\ eff'.rawCalls = <<>>
         /\ UNCHANGED rawHistory
         /\ IF eff'.target # fullPathOf(microLocation[eff'.name])
            THEN /\ Len(eff'.microCalls) = 1
                 /\ eff'.microCalls[1].app = eff'.name
                 /\ Len(eff'.popStates) = 1
                 /\ eff'.popStates[1].app = eff'.name
            ELSE eff'.microCalls = <<>> /\ eff'.popStates = <<>>)]_vars

\* a request moved a hidden keep-alive application through its virtual History
C15_Witness ==
  /\ eff.op \in NavOps /\ eff.valid
  /\ hiddenKeepAlive(eff.name)
  /\ Len(eff.microCalls) = 1

\* C17: a valid push or replace to an active application whose target differs
\* from its virtual location makes exactly one call on that application's
\* virtual History, with request.state or null and the resolved full path,
\* and then dispatches exactly one notification, to that same application,
\* after the call: the application is at the target when it is notified.
C17_ActiveStepOrder ==
  [][(/\ eff'.op \in NavOps /\ eff'.valid /\ eff'.active
      /\ eff'.target # fullPathOf(microLocation[eff'.name]))
     => (/\ Len(eff'.microCalls) = 1
         /\ eff'.microCalls[1].app = eff'.name
         /\ eff'.microCalls[1].state = Coalesce(eff'.state, null)
         /\ eff'.microCalls[1].path = eff'.target
         /\ Len(eff'.popStates) = 1
         /\ eff'.popStates[1].app = eff'.name
         /\ eff'.popStates[1].at = eff'.target
         /\ \A m \in Names \ {eff'.name} :
              microLocation'[m] = microLocation[m])]_vars

\* a request with a state moved an active application and notified it
C17_Witness ==
  /\ eff.op \in NavOps /\ eff.valid /\ eff.active
  /\ eff.state = "s1"
  /\ Len(eff.microCalls) = 1 /\ eff.microCalls[1].state = "s1"
  /\ Len(eff.popStates) = 1

(***************************************************************************)
(* Properties of the guard pipeline and the ledger                         *)
(***************************************************************************)
\* the guards of a hook registered when a step starts
hookGuards(hook) == IF hook = "before" THEN beforeGuards ELSE afterGuards

\* the place of guard in the Set of guards, 0 when it is not in it
position(list, guard) ==
  IF has(list, guard) THEN CHOOSE i \in 1..Len(list) : list[i] = guard ELSE 0

\* the hook whose guards an operation runs
hookOf(op) == IF op = "executeNavigationGuard" THEN "before" ELSE "after"

GuardOps == {"executeNavigationGuard", "idleCallback"}

C6_PhaseOrder ==
  [][/\ eff'.op = "executeNavigationGuard" =>
          /\ \A i \in 1..Len(eff'.guardCalls) :
               /\ eff'.guardCalls[i].hook = "before"
               /\ eff'.guardCalls[i].sees = eff'.to
          /\ idleQueue' = Append(idleQueue,
               [appName |-> eff'.name, to |-> eff'.to, from |-> eff'.from])
     /\ (\E i \in 1..Len(eff'.guardCalls) : eff'.guardCalls[i].hook = "after") =>
          /\ eff'.op = "idleCallback"
          /\ idleQueue # <<>>
          /\ Head(idleQueue) = [appName |-> eff'.name, to |-> eff'.to, from |-> eff'.from]
          /\ idleQueue' = Tail(idleQueue)]_vars

\* a before guard ran in a call that replaced the entry of its application
C6_Witness ==
  /\ eff.op = "executeNavigationGuard"
  /\ eff.guardCalls # <<>>
  /\ eff.guardCalls[1].sees = eff.to
  /\ eff.from # undefinedLocation
  /\ eff.from # eff.to

\* C7: two guards of one hook that both run for a navigation run in the order
\* in which they were registered.
C7_GuardOrdering ==
  [][eff'.op \in GuardOps =>
       \A i, j \in 1..Len(eff'.guardCalls) :
          i < j => position(hookGuards(hookOf(eff'.op)), eff'.guardCalls[i].guard)
                     < position(hookGuards(hookOf(eff'.op)), eff'.guardCalls[j].guard)]_vars

\* three guards ran for one navigation
C7_Witness ==
  /\ eff.op \in GuardOps
  /\ Len(eff.guardCalls) = 3

\* the calls a batch makes on guard
callsOf(e, guard) == {i \in 1..Len(e.guardCalls) : e.guardCalls[i].guard = guard}

\* C8: for a navigation of appName every registered function guard runs once,
\* with (appName, to, from); a registered keyed guard runs once, with
\* (to, from), if it has a function for appName and does not run otherwise.
\* Before guards and after guards alike.
C8_GuardDispatch ==
  [][eff'.op \in GuardOps =>
       \A g \in Guards :
          LET registered == has(hookGuards(hookOf(eff'.op)), g)
              calls == callsOf(eff', g)
          IN /\ (registered /\ isFunction(g)) =>
                  /\ Cardinality(calls) = 1
                  /\ \A i \in calls :
                       eff'.guardCalls[i].args = <<eff'.name, eff'.to, eff'.from>>
             /\ (registered /\ ~isFunction(g) /\ eff'.name \in g.keys) =>
                  /\ Cardinality(calls) = 1
                  /\ \A i \in calls :
                       eff'.guardCalls[i].args = <<eff'.to, eff'.from>>
             /\ (registered /\ ~isFunction(g) /\ eff'.name \notin g.keys) =>
                  calls = {}]_vars

\* a navigation of B for which the guard keyed by A did not run, a function
\* guard did
C8_Witness ==
  /\ eff.op \in GuardOps
  /\ eff.name = "B"
  /\ has(hookGuards(hookOf(eff.op)), G2)
  /\ callsOf(eff, G2) = {}
  /\ callsOf(eff, G1) # {}

\* no callback is twice in the list
noDuplicate(list) ==
  \A i, j \in 1..Len(list) : list[i] = list[j] => i = j

\* C9: a guard is at most once in the Set of a hook, at the place of its first
\* registration; registering it again changes nothing; the function a
\* registration returned takes the guard out and leaves the others in their
\* order; a batch runs a guard at most once and runs only guards that are
\* registered when it starts.
C9_SetSemantics ==
  [][/\ noDuplicate(beforeGuards') /\ noDuplicate(afterGuards')
     /\ eff'.op = "beforeEach" =>
          IF eff'.known THEN beforeGuards' = beforeGuards
          ELSE \E g \in Guards :
                  ~has(beforeGuards, g) /\ beforeGuards' = Append(beforeGuards, g)
     /\ eff'.op = "afterEach" =>
          IF eff'.known THEN afterGuards' = afterGuards
          ELSE \E g \in Guards :
                  ~has(afterGuards, g) /\ afterGuards' = Append(afterGuards, g)
     /\ eff'.op = "unregisterBefore" =>
          \E g \in Guards :
             /\ ~has(beforeGuards', g)
             /\ beforeGuards' = SelectSeq(beforeGuards, LAMBDA x : x # g)
     /\ eff'.op = "unregisterAfter" =>
          \E g \in Guards :
             /\ ~has(afterGuards', g)
             /\ afterGuards' = SelectSeq(afterGuards, LAMBDA x : x # g)
     /\ eff'.op \in GuardOps =>
          \A g \in Guards :
             /\ Cardinality(callsOf(eff', g)) <= 1
             /\ callsOf(eff', g) # {} => has(hookGuards(hookOf(eff'.op)), g)]_vars

\* a guard was registered again with two guards registered: the Set is as it was
C9_Witness ==
  /\ eff.op = "beforeEach"
  /\ eff.known
  /\ Len(beforeGuards) = 2

\* C10: router.current has an entry for a name iff executeNavigationGuard has
\* processed a navigation of that name since the last
\* clearCurrentWhenUnmount of that name, or since the start.
C10_LedgerLifecycle == DOMAIN current = navigated

\* the entry of A was removed, B keeps its own
C10_Witness ==
  /\ eff.op = "clearCurrentWhenUnmount"
  /\ eff.name = "A"
  /\ "A" \notin DOMAIN current
  /\ "B" \in DOMAIN current


(***************************************************************************)
(* Properties of the deferred after guards                                 *)
(***************************************************************************)
\* the handles of the pending callbacks
pendingHandles == {handles[i] : i \in 1..Len(handles)}

\* the arguments a guard call was handed
toOf(call) == call.args[Len(call.args) - 1]
fromOf(call) == call.args[Len(call.args)]

\* the entry of the ledger for an application, undefined if it has none
ledgerEntry(name) ==
  IF name \in DOMAIN current THEN current[name] ELSE undefinedLocation

C14_FromIsLedgerEntry ==
  [][eff'.op = "executeNavigationGuard" =>
       \A i \in 1..Len(eff'.guardCalls) :
          fromOf(eff'.guardCalls[i]) = ledgerEntry(eff'.name)]_vars

\* C14: the from handed to the before guards and, later, to the after guards
\* of a call of executeNavigationGuard is the from argument of that call; the
\* ledger is written, never read.
C14_FromIsArgument ==
  [][/\ eff'.op = "executeNavigationGuard" =>
          /\ \A i \in 1..Len(eff'.guardCalls) :
               fromOf(eff'.guardCalls[i]) = eff'.from
          /\ idleQueue'[Len(idleQueue')].from = eff'.from
          /\ current' = [n \in DOMAIN current \cup {eff'.name} |->
                           IF n = eff'.name THEN eff'.to ELSE current[n]]
     /\ eff'.op = "idleCallback" =>
          \A i \in 1..Len(eff'.guardCalls) :
             fromOf(eff'.guardCalls[i]) = Head(idleQueue).from]_vars

\* a navigation of A to /sub/c#h is pending and no other is; the next
\* navigation of A handed from = /a?x=1 to a guard: neither the entry the
\* first one wrote nor undefined
C14_Witness ==
  /\ eff.op = "executeNavigationGuard" /\ eff.name = "A"
  /\ Len(idleQueue) = 2
  /\ idleQueue[1].appName = "A" /\ idleQueue[1].to = Loc("/sub/c", "", "#h")
  /\ eff.handle = handles[2]
  /\ eff.guardCalls # <<>>
  /\ fromOf(eff.guardCalls[1]) = Loc("/a", "?x=1", "")

\* C18: the deferred callback hands the after guards the to and from of the
\* call that scheduled it, whatever the ledger holds by then, and leaves the
\* ledger as it is: an application unmounted in between stays without entry.
C18_StaleAfterGuards ==
  [][eff'.op = "idleCallback" =>
       /\ current' = current
       /\ navigated' = navigated
       /\ eff'.name = Head(idleQueue).appName
       /\ \A i \in 1..Len(eff'.guardCalls) :
            /\ toOf(eff'.guardCalls[i]) = Head(idleQueue).to
            /\ fromOf(eff'.guardCalls[i]) = Head(idleQueue).from
            /\ eff'.guardCalls[i].sees = ledgerEntry(eff'.name)]_vars

\* after guards ran for a navigation of an application that was unmounted
\* since: they were handed its to, and the ledger has no entry for it
C18_Witness ==
  /\ eff.op = "idleCallback"
  /\ eff.guardCalls # <<>>
  /\ eff.name \notin DOMAIN current
  /\ toOf(eff.guardCalls[1]) = eff.to
  /\ eff.guardCalls[1].sees = undefinedLocation

\* a guard runs for a navigation of the application
dispatches(guard, name) == isFunction(guard) \/ name \in guard.keys

\* C19: the deferred callback invokes the guards that are registered with
\* afterEach when it runs, those registered since the call included and those
\* unregistered since excluded; executeNavigationGuard invokes the guards
\* registered with beforeEach when it is called.
C19_AfterGuardsReadAtRun ==
  [][/\ eff'.op = "idleCallback" =>
          \A g \in Guards :
             (callsOf(eff', g) # {}) <=>
               (has(afterGuards, g) /\ dispatches(g, eff'.name))
     /\ eff'.op = "executeNavigationGuard" =>
          \A g \in Guards :
             (callsOf(eff', g) # {}) <=>
               (has(beforeGuards, g) /\ dispatches(g, eff'.name))]_vars

\* the keyed guard was registered while the callback of a navigation of A
\* was pending, and the callback invoked it
C19_Witness ==
  /\ eff.op = "idleCallback" /\ eff.late
  /\ eff.name = "A"
  /\ eff.guardCalls # <<>>
  /\ eff.guardCalls[Len(eff.guardCalls)].guard = G2


(***************************************************************************)
(* Properties of the router as a whole                                     *)
(***************************************************************************)
RawOps == {"go", "back", "forward"}

\* C16: only executeNavigationGuard, which sets the entry of its application,
\* and clearCurrentWhenUnmount, which deletes the entry of its application,
\* change the ledger; push, replace, go, back, forward, the registration of
\* guards and the deferred run of the after guards leave it as it is.  go,
\* back and forward call the method of the same name on the real History
\* with the arguments they were given, run no guard, call no virtual History
\* and dispatch no notification.
C16_LedgerChokePoint ==
  [][/\ eff'.op \notin {"executeNavigationGuard", "clearCurrentWhenUnmount"}
          => current' = current
     /\ eff'.op = "executeNavigationGuard" =>
          /\ DOMAIN current' = DOMAIN current \cup {eff'.name}
          /\ current'[eff'.name] = eff'.to
          /\ \A n \in DOMAIN current \ {eff'.name} : current'[n] = current[n]
     /\ eff'.op = "clearCurrentWhenUnmount" =>
          /\ DOMAIN current' = DOMAIN current \ {eff'.name}
          /\ \A n \in DOMAIN current' : current'[n] = current[n]
     /\ eff'.op \in RawOps =>
          /\ Len(eff'.rawCalls) = 1
          /\ eff'.rawCalls[1].method = eff'.op
          /\ Len(eff'.rawCalls[1].state) = (IF eff'.op = "go" THEN 1 ELSE 0)
          /\ eff'.microCalls = <<>> /\ eff'.popStates = <<>>
          /\ eff'.guardCalls = <<>> /\ eff'.scheduled = 0
          /\ UNCHANGED <<microLocation, guardVars>>]_vars

\* a push moved an application, and back was called, while the ledger held
\* an entry for each application
C16_Witness ==
  /\ DOMAIN current = Names
  /\ \/ eff.op \in NavOps /\ mutated(eff)
     \/ eff.op = "back" /\ Len(eff.rawCalls) = 1

\* the operations that name an application
NamedOps ==
  NavOps \cup {"executeNavigationGuard", "clearCurrentWhenUnmount"}

\* C20: executeNavigationGuard, clearCurrentWhenUnmount, push and replace for
\* one application leave the ledger entry and the virtual location of every
\* other application as they were, call no other application's virtual
\* History and notify no other application.
C20_NoInterference ==
  [][(eff'.op \in NamedOps /\ eff'.name # "") =>
       \A m \in Names \ {eff'.name} :
          /\ (m \in DOMAIN current') = (m \in DOMAIN current)
          /\ m \in DOMAIN current => current'[m] = current[m]
          /\ microLocation'[m] = microLocation[m]
          /\ \A i \in 1..Len(eff'.microCalls) : eff'.microCalls[i].app # m
          /\ \A i \in 1..Len(eff'.popStates) : eff'.popStates[i].app # m]_vars

\* A was unmounted, or moved by a push, while B was mounted and had an entry
\* in the ledger
C20_Witness ==
  /\ eff.name = "A"
  /\ "B" \in DOMAIN current
  /\ appInstanceMap["B"].state = "mounted"
  /\ \/ eff.op = "clearCurrentWhenUnmount"
     \/ eff.op \in NavOps /\ Len(eff.microCalls) = 1

====
